---- MODULE Spec2Model ----
(***************************************************************************)
(* vid2mp3 (src/src/main.rs): the UI thread's frame (App::update), the two *)
(* shared cells (status, thumbnail_path) and the jobs spawned on the tokio *)
(* multi-thread runtime (App::convert, App::extract_thumbnail_async).      *)
(*                                                                         *)
(* Jobs run on worker threads in parallel with the UI thread, so every     *)
(* action below holds at most one access to a shared cell or to the file   *)
(* system: a lock is taken for one assignment or one clone only.           *)
(*                                                                         *)
(* Option<T> is a sequence of length 0 (None) or 1 (Some).  Text is a      *)
(* sequence of code points, a byte string a sequence of bytes.             *)
(***************************************************************************)
EXTENDS Integers, Sequences, FiniteSets, Bags, TLC

VARIABLES
    pc,                 \* position of the UI thread inside App::update
    ret,                \* where set_input returns to
    input_path,         \* App.input_path
    output_path,        \* App.output_path
    status,             \* App.status (the Status Cell)
    video_thumbnail,    \* App.video_thumbnail
    thumbnail_path,     \* App.thumbnail_path (the Thumbnail Cache Path Cell)
    thumbnail_loading,  \* App.thumbnail_loading
    repaint,            \* whether the last thumbnail pass called request_repaint
    conv_jobs,          \* the bag of convert's tasks alive on the runtime
    thumb_jobs,         \* the bag of extract_thumbnail_async's tasks alive
    files,              \* content of each output file: the runs it holds
    thumb_files,        \* the thumbnail files that exist in the scratch directory
    clock,              \* the latest reading of SystemTime::now(), in seconds
    loads,              \* history: image loads from the cell in this selection,
                        \* "none", "once" or "again" (more than once)
    last_conv           \* history: the Conversion Job that ended last, while
                        \* the selection it ran for stands and no other runs

vars == <<pc, ret, input_path, output_path, status, video_thumbnail,
          thumbnail_path, thumbnail_loading, repaint,
          conv_jobs, thumb_jobs, files, thumb_files, clock, loads,
          last_conv>>

----------------------------------------------------------------------------
\* Bounds of the model.

\* Tasks alive on the runtime at a time, Thumbnail Jobs and Conversion Jobs
\* together; a task that has ended is dropped by the runtime.
MaxJobs == 2

\* The last second the clock reaches.
MaxClock == 1

----------------------------------------------------------------------------
\* Paths.  A path is a file stem and an extension; the stem "clip\\xFF" is
\* not valid Unicode (a file name the operating system allows).

None == <<>>

Some(x) == <<x>>

Paths ==
    { [stem |-> "movie", ext |-> "mp4"],
      [stem |-> "clip\\xFF", ext |-> "mkv"] }

\* PathBuf::set_extension("mp3")
SetExtension(path, e) == [path EXCEPT !.ext = e]

OutPaths == { SetExtension(p, "mp3") : p \in Paths }

\* Path::to_str() is Some exactly for valid Unicode
ToStrIsSome(path) == path.stem # "clip\\xFF"

----------------------------------------------------------------------------
\* enum Status

Idle == [kind |-> "Idle", msg |-> <<>>]

Converting == [kind |-> "Converting", msg |-> <<>>]

Done == [kind |-> "Done", msg |-> <<>>]

Error(m) == [kind |-> "Error", msg |-> m]

----------------------------------------------------------------------------
\* What Command::output().await yields for the conversion subprocess.
\* kind "ok": the tool ran and exited with success; "exit": it ran and exited
\* non-zero with stderr on its standard error; "spawnerr": it could not be
\* started, with the operating system's error number.  touched: whether the
\* run (re)wrote the output file.

StderrSet == { <<69, 195, 169, 226, 130, 255>> }

\* ENOENT: the tool is not on the path
SpawnErrnos == {2}

NoResult == [kind |-> "none", stderr |-> <<>>, errno |-> 0, touched |-> FALSE]

ConvOutcomes ==
    { [kind |-> "ok", stderr |-> <<>>, errno |-> 0, touched |-> TRUE] }
    \cup { [kind |-> "exit", stderr |-> e, errno |-> 0, touched |-> t] :
             e \in StderrSet, t \in BOOLEAN }
    \cup { [kind |-> "spawnerr", stderr |-> <<>>, errno |-> n, touched |-> FALSE] :
             n \in SpawnErrnos }

\* String::from_utf8_lossy: every maximal invalid part becomes one U+FFFD
\* (code point 65533).

IsCont(b) == b >= 128 /\ b <= 191

\* core::str::utf8_char_width
Utf8CharWidth(b) ==
    IF b < 128 THEN 1
    ELSE IF b >= 194 /\ b <= 223 THEN 2
    ELSE IF b >= 224 /\ b <= 239 THEN 3
    ELSE IF b >= 240 /\ b <= 244 THEN 4
    ELSE 0

\* the second byte a three- or four-byte lead admits
SecondOk(b0, b1) ==
    \/ b0 = 224 /\ b1 >= 160 /\ b1 <= 191
    \/ b0 >= 225 /\ b0 <= 236 /\ IsCont(b1)
    \/ b0 = 237 /\ b1 >= 128 /\ b1 <= 159
    \/ b0 >= 238 /\ b0 <= 239 /\ IsCont(b1)
    \/ b0 = 240 /\ b1 >= 144 /\ b1 <= 191
    \/ b0 >= 241 /\ b0 <= 243 /\ IsCont(b1)
    \/ b0 = 244 /\ b1 >= 128 /\ b1 <= 143

At(bytes, i) == IF i <= Len(bytes) THEN bytes[i] ELSE 0

\* bytes accepted of the sequence that starts at the head of bytes, and
\* whether it is a whole character
Utf8Scan(bytes) ==
    LET b0 == bytes[1]
        w == Utf8CharWidth(b0)
    IN  IF w = 1 THEN [n |-> 1, ok |-> TRUE]
        ELSE IF w = 0 THEN [n |-> 1, ok |-> FALSE]
        ELSE IF w = 2 THEN
            IF IsCont(At(bytes, 2)) THEN [n |-> 2, ok |-> TRUE]
            ELSE [n |-> 1, ok |-> FALSE]
        ELSE IF ~SecondOk(b0, At(bytes, 2)) THEN [n |-> 1, ok |-> FALSE]
        ELSE IF ~IsCont(At(bytes, 3)) THEN [n |-> 2, ok |-> FALSE]
        ELSE IF w = 3 THEN [n |-> 3, ok |-> TRUE]
        ELSE IF ~IsCont(At(bytes, 4)) THEN [n |-> 3, ok |-> FALSE]
        ELSE [n |-> 4, ok |-> TRUE]

Utf8Decode(bytes, n) ==
    IF n = 1 THEN bytes[1]
    ELSE IF n = 2 THEN (bytes[1] - 192) * 64 + (bytes[2] - 128)
    ELSE IF n = 3 THEN
        (bytes[1] - 224) * 4096 + (bytes[2] - 128) * 64 + (bytes[3] - 128)
    ELSE (bytes[1] - 240) * 262144 + (bytes[2] - 128) * 4096
         + (bytes[3] - 128) * 64 + (bytes[4] - 128)

RECURSIVE FromUtf8Lossy(_)
FromUtf8Lossy(bytes) ==
    IF bytes = <<>> THEN <<>>
    ELSE LET s == Utf8Scan(bytes)
             rest == SubSeq(bytes, s.n + 1, Len(bytes))
         IN  <<IF s.ok THEN Utf8Decode(bytes, s.n) ELSE 65533>>
             \o FromUtf8Lossy(rest)

\* io::Error's Display, e.to_string()
IoErrorToString(errno) ==
    IF errno = 2
    THEN <<78, 111, 32, 115, 117, 99, 104, 32, 102, 105, 108, 101, 32, 111,
           114, 32, 100, 105, 114, 101, 99, 116, 111, 114, 121, 32, 40, 111,
           115, 32, 101, 114, 114, 111, 114, 32, 50, 41>>
    ELSE <<80, 101, 114, 109, 105, 115, 115, 105, 111, 110, 32, 100, 101,
           110, 105, 101, 100, 32, 40, 111, 115, 32, 101, 114, 114, 111, 114,
           32, 49, 51, 41>>

\* a mapping that reports every failure as the I/O error of the spawn
NewStatusIoOnly(result) ==
    IF result.kind = "ok" THEN Done
    ELSE Error(IoErrorToString(result.errno))

\* a mapping that reports every failure as the captured standard error
NewStatusStderrOnly(result) ==
    IF result.kind = "ok" THEN Done
    ELSE Error(FromUtf8Lossy(result.stderr))

\* the match on the subprocess result in the spawned task of convert
NewStatus(result) ==
    IF result.kind = "ok" THEN Done
    ELSE IF result.kind = "exit" THEN Error(FromUtf8Lossy(result.stderr))
    ELSE Error(IoErrorToString(result.errno))

----------------------------------------------------------------------------
\* The runtime's tasks.  A task is a record of what it captured and where it
\* stands; equal tasks are told apart by their number of copies in the bag.

Add(bag, job) == bag (+) SetToBag({job})

Remove(bag, job) == bag (-) SetToBag({job})

Alive == BagCardinality(conv_jobs) + BagCardinality(thumb_jobs)

\* history: the Conversion Job that ended last, the result its subprocess
\* gave and the status it wrote.  on: the behaviour records its runs (the
\* behaviours of SpecTwice do, the behaviours of Spec do not).
NoConv ==
    [on |-> FALSE, input |-> None, res |-> NoResult, wrote |-> None,
     again |-> FALSE]

Blank == [NoConv EXCEPT !.on = last_conv.on]

\* again: the job ran right after a run on the same selection for which the
\* tool behaved the same
Ended(job, written) ==
    IF last_conv.on /\ ~job.stale
    THEN [on |-> TRUE, input |-> Some(job.input), res |-> job.res,
          wrote |-> Some(written), again |-> job.pred.res = job.res]
    ELSE Blank

----------------------------------------------------------------------------
\* App::new

AppNew ==
    /\ pc = "frame"
    /\ ret = "poll"
    /\ input_path = None
    /\ output_path = None
    /\ status = Idle
    /\ video_thumbnail = None
    /\ thumbnail_path = None
    /\ thumbnail_loading = FALSE
    /\ repaint = FALSE
    /\ conv_jobs = EmptyBag
    /\ thumb_jobs = EmptyBag
    /\ files = [o \in OutPaths |-> <<>>]
    /\ thumb_files = {}
    /\ clock = 0
    /\ loads = "none"

Init == AppNew /\ last_conv = NoConv

\* the same start, in a behaviour that records its runs
InitTwice == AppNew /\ last_conv = [NoConv EXCEPT !.on = TRUE]

jobVars == <<conv_jobs, thumb_jobs>>

fsVars == <<files, thumb_files, clock>>

----------------------------------------------------------------------------
\* The UI thread.  One frame of App::update is, in order: the dropped-file
\* handler (pc "frame"), the thumbnail pass (pc "frame" or "poll"), the
\* drop-zone click with its file dialog (pc "pick"), and the can_convert
\* gate with the convert button (pc "pick" or "gate").

\* history: the tasks alive belong to a selection that is replaced
Superseded(bag) ==
    LET old == { [j EXCEPT !.stale = TRUE] : j \in BagToSet(bag) }
    IN  [j \in old |-> CopiesIn(j, bag) + CopiesIn([j EXCEPT !.stale = FALSE], bag)]

\* set_input up to and including the reset of the Thumbnail Cache Path Cell
SetInputBegin(path, back) ==
    /\ Alive < MaxJobs
    /\ output_path' = Some(SetExtension(path, "mp3"))
    /\ input_path' = Some(path)
    /\ video_thumbnail' = None
    /\ thumbnail_loading' = FALSE
    /\ thumbnail_path' = None
    /\ loads' = "none"
    /\ thumb_jobs' = Superseded(thumb_jobs)
    /\ last_conv' = Blank
    /\ pc' = "si_status"
    /\ ret' = back
    /\ conv_jobs' = Superseded(conv_jobs)
    /\ UNCHANGED <<status, repaint, fsVars>>

\* a file dropped on the window
DropFile(path) ==
    /\ pc = "frame"
    /\ SetInputBegin(path, "poll")

\* a click on the drop zone and a file picked in the dialog
PickFile(path) ==
    /\ pc = "pick"
    /\ SetInputBegin(path, "gate")

\* a set_input that leaves the Status Cell as it is
ResetStatusSkipped == status

\* what set_input stores in the Status Cell
ResetStatus == Idle

\* set_input: the reset of the Status Cell
SetInputStatus ==
    /\ pc = "si_status"
    /\ status' = ResetStatus
    /\ pc' = "si_spawn"
    /\ UNCHANGED <<ret, input_path, output_path, video_thumbnail, thumbnail_path,
                   thumbnail_loading, repaint, jobVars, fsVars, loads, last_conv>>

NewThumbJob(video) ==
    [video |-> video, st |-> "spawned", ts |-> 0, stale |-> FALSE]

\* set_input's call of extract_thumbnail_async: the flag and the spawn
SetInputSpawn ==
    /\ pc = "si_spawn"
    /\ thumbnail_loading' = TRUE
    /\ thumb_jobs' = Add(thumb_jobs, NewThumbJob(input_path[1]))
    /\ pc' = ret
    /\ ret' = "poll"
    /\ UNCHANGED <<input_path, output_path, status, video_thumbnail,
                   thumbnail_path, repaint, conv_jobs, fsVars, loads, last_conv>>

\* whether this pass loads the image at the path in the cell: the cell is
\* cloned, not taken, and video_thumbnail alone gates the read
LoadsFromCell == video_thumbnail = None /\ thumbnail_path # None

\* request_repaint: the placeholder branch, while the flag is set
RequestsRepaint(thumbnail, loading) == thumbnail = None /\ loading

\* the thumbnail pass of a frame; opened: whether image::open succeeds
PollThumbnail(opened) ==
    /\ pc \in {"frame", "poll"}
    /\ IF input_path # None /\ LoadsFromCell
       THEN /\ video_thumbnail' = IF opened THEN thumbnail_path ELSE None
            /\ thumbnail_loading' = FALSE
            /\ loads' = IF loads = "none" THEN "once" ELSE "again"
       ELSE /\ opened
            /\ UNCHANGED <<video_thumbnail, thumbnail_loading, loads>>
    /\ repaint' = (input_path # None
                     /\ RequestsRepaint(video_thumbnail', thumbnail_loading'))
    /\ pc' = "pick"
    /\ UNCHANGED <<ret, input_path, output_path, status, thumbnail_path,
                   jobVars, fsVars, last_conv>>

\* let can_convert = input_path.is_some() && !matches!(status, Converting)
CanConvert == input_path # None /\ status.kind # "Converting"

\* history: the run before this one, when this one starts after it on the
\* same selection with no other Conversion Job alive
Previous == IF BagToSet(conv_jobs) = {} THEN last_conv ELSE Blank

NewConvJob ==
    [input |-> input_path[1], output |-> output_path[1], st |-> "spawned",
     res |-> NoResult, stale |-> FALSE, pred |-> Previous]

\* btn.clicked() && can_convert, and convert: Converting, then the spawn.
\* The gate's read of the cell and convert's write are one step: a job's
\* write between the two leaves a status that is not Converting as it is,
\* and convert overwrites it, as if the job had written before the gate.
ClickConvert ==
    /\ pc \in {"pick", "gate"}
    /\ CanConvert
    /\ Alive < MaxJobs
    /\ status' = Converting
    /\ conv_jobs' = Add(conv_jobs, NewConvJob)
    /\ last_conv' = Blank
    /\ pc' = "frame"
    /\ UNCHANGED <<ret, input_path, output_path, video_thumbnail, thumbnail_path,
                   thumbnail_loading, repaint, thumb_jobs, fsVars, loads>>

\* the frame ends without a conversion started
EndFrame ==
    /\ pc \in {"pick", "gate"}
    /\ pc' = "frame"
    /\ UNCHANGED <<ret, input_path, output_path, status, video_thumbnail,
                   thumbnail_path, thumbnail_loading, repaint, jobVars, fsVars,
                   loads, last_conv>>

uiVars == <<pc, ret, input_path, output_path, video_thumbnail, thumbnail_loading,
            repaint, loads>>

----------------------------------------------------------------------------
\* The task spawned by convert.

\* input.to_str().unwrap(), output.to_str().unwrap()
ArgsUnwrap(job) == ToStrIsSome(job.input) /\ ToStrIsSome(job.output)

\* history: what a file holds is no longer the most recent run's result
Aged(content) == [i \in DOMAIN content |-> "older"]

\* a run that adds its result to what the output file held
KeepAndAdd(content) == content \o <<"latest">>

\* ffmpeg -y: the run's result replaces what the output file held
Overwrite(content) == <<"latest">>

\* the task panics on a path that is not valid Unicode and ends there
ConvPanic(job) ==
    /\ job.st = "spawned"
    /\ ~ArgsUnwrap(job)
    /\ conv_jobs' = Remove(conv_jobs, job)
    /\ last_conv' = Blank
    /\ UNCHANGED <<uiVars, status, thumbnail_path, thumb_jobs, fsVars>>

\* Command::new("ffmpeg") ... .output().await
ConvRun(job, outcome) ==
    /\ job.st = "spawned"
    /\ ArgsUnwrap(job)
    /\ conv_jobs' = Add(Remove(conv_jobs, job),
                        [job EXCEPT !.st = "ran", !.res = outcome])
    /\ files' = IF outcome.touched
                THEN [files EXCEPT ![job.output] = Overwrite(Aged(@))]
                ELSE files
    /\ UNCHANGED <<uiVars, status, thumbnail_path, thumb_jobs, thumb_files,
                   clock, last_conv>>

\* *status.lock().unwrap() = new_status, and the task ends
ConvWrite(job) ==
    /\ job.st = "ran"
    /\ status' = NewStatus(job.res)
    /\ conv_jobs' = Remove(conv_jobs, job)
    /\ last_conv' = Ended(job, NewStatus(job.res))
    /\ UNCHANGED <<uiVars, thumbnail_path, thumb_jobs, fsVars>>

----------------------------------------------------------------------------
\* The task spawned by extract_thumbnail_async.

\* SystemTime::now() ... as_secs(): the reading is the previous reading or a
\* later second
Readings == { t \in clock..(clock + 1) : t <= MaxClock }

\* fs::create_dir_all(&temp_dir), then the name from the clock's seconds
ThumbStart(job, created, now) ==
    /\ job.st = "spawned"
    /\ IF created
       THEN /\ now \in Readings
            /\ thumb_jobs' = Add(Remove(thumb_jobs, job),
                                 [job EXCEPT !.st = "named", !.ts = now])
            /\ clock' = now
       ELSE /\ now = clock
            /\ thumb_jobs' = Remove(thumb_jobs, job)
            /\ UNCHANGED clock
    /\ UNCHANGED <<uiVars, status, thumbnail_path, conv_jobs, files, thumb_files,
                   last_conv>>

\* what the thumbnail subprocess can yield: it cannot be started, exits
\* non-zero, exits with success without a file, or with the file written
ThumbOutcomes == {"spawnerr", "exit", "ok_nofile", "ok_file"}

\* the two to_str() checks and Command::new("ffmpeg") ... .output().await;
\* temp_str: whether the scratch path is valid Unicode
ThumbRun(job, temp_str, outcome) ==
    /\ job.st = "named"
    /\ IF ~ToStrIsSome(job.video) \/ ~temp_str
       THEN /\ outcome = "spawnerr"
            /\ thumb_jobs' = Remove(thumb_jobs, job)
            /\ UNCHANGED thumb_files
       ELSE /\ thumb_jobs' =
                 IF outcome \in {"ok_nofile", "ok_file"}
                 THEN Add(Remove(thumb_jobs, job), [job EXCEPT !.st = "ran"])
                 ELSE Remove(thumb_jobs, job)
            /\ thumb_files' = IF outcome = "ok_file"
                              THEN thumb_files \cup {job.ts}
                              ELSE thumb_files
    /\ UNCHANGED <<uiVars, status, thumbnail_path, conv_jobs, files, clock,
                   last_conv>>

\* a check of the exit status alone, without thumbnail_file.exists()
ThumbnailReadyUnverified(job) == job.st = "ran"

\* a check that also asks whether the job's selection still stands
ThumbnailReadyCurrent(job) ==
    job.st = "ran" /\ job.ts \in thumb_files /\ ~job.stale

\* output.status.success() && thumbnail_file.exists(); a task in state "ran"
\* is one whose subprocess exited with success
ThumbnailReady(job) == job.st = "ran" /\ job.ts \in thumb_files

\* the cell write on success, and the task ends
ThumbFinish(job) ==
    /\ job.st = "ran"
    /\ thumbnail_path' = IF ThumbnailReady(job) THEN Some(job.ts)
                         ELSE thumbnail_path
    /\ thumb_jobs' = Remove(thumb_jobs, job)
    /\ UNCHANGED <<uiVars, status, conv_jobs, fsVars, last_conv>>

----------------------------------------------------------------------------

Next ==
    \/ \E p \in Paths : DropFile(p)
    \/ \E p \in Paths : PickFile(p)
    \/ SetInputStatus
    \/ SetInputSpawn
    \/ \E opened \in BOOLEAN : PollThumbnail(opened)
    \/ ClickConvert
    \/ EndFrame
    \/ \E job \in BagToSet(conv_jobs) : ConvPanic(job)
    \/ \E job \in BagToSet(conv_jobs), o \in ConvOutcomes : ConvRun(job, o)
    \/ \E job \in BagToSet(conv_jobs) : ConvWrite(job)
    \/ \E job \in BagToSet(thumb_jobs), created \in BOOLEAN, now \in 0..MaxClock :
          ThumbStart(job, created, now)
    \/ \E job \in BagToSet(thumb_jobs), t \in BOOLEAN, o \in ThumbOutcomes :
          ThumbRun(job, t, o)
    \/ \E job \in BagToSet(thumb_jobs) : ThumbFinish(job)

Spec == Init /\ [][Next]_vars

\* The user picks one file and converts it again and again: App::update with
\* no file dropped and the dialog used for the first selection only.
NextTwice ==
    \/ input_path = None /\ \E p \in Paths : PickFile(p)
    \/ SetInputStatus
    \/ SetInputSpawn
    \/ \E opened \in BOOLEAN : PollThumbnail(opened)
    \/ ClickConvert
    \/ EndFrame
    \/ \E job \in BagToSet(conv_jobs) : ConvPanic(job)
    \/ \E job \in BagToSet(conv_jobs), o \in ConvOutcomes : ConvRun(job, o)
    \/ \E job \in BagToSet(conv_jobs) : ConvWrite(job)
    \/ \E job \in BagToSet(thumb_jobs), created \in BOOLEAN, now \in 0..MaxClock :
          ThumbStart(job, created, now)
    \/ \E job \in BagToSet(thumb_jobs), t \in BOOLEAN, o \in ThumbOutcomes :
          ThumbRun(job, t, o)
    \/ \E job \in BagToSet(thumb_jobs) : ThumbFinish(job)

SpecTwice == InitTwice /\ [][NextTwice]_vars

----------------------------------------------------------------------------
\* Steps of the jobs, as the formulas below see them.

\* the step is the last of this task: the runtime drops it
Ends(job, bag, bag2) ==
    /\ CopiesIn(job, bag2) < CopiesIn(job, bag)
    /\ BagCardinality(bag2) < BagCardinality(bag)

\* the step is this Conversion Job's write of the Status Cell
ConvWrites(job) == job.st = "ran" /\ Ends(job, conv_jobs, conv_jobs')

\* the step is one of this Thumbnail Job
ThumbSteps(job) ==
    /\ pc' = pc
    /\ CopiesIn(job, thumb_jobs') < CopiesIn(job, thumb_jobs)

\* the Conversion Jobs alive that were started for this input
InFlightFor(path) ==
    { job \in BagToSet(conv_jobs) : job.input = path }

CopiesFor(path) ==
    BagCardinality([job \in InFlightFor(path) |-> CopiesIn(job, conv_jobs)])

\* set_input returns
SetInputReturns == pc = "si_spawn" /\ pc' # "si_spawn"

\* the thumbnail pass of a frame
ThumbnailPass == pc \in {"frame", "poll"} /\ pc' = "pick"

\* the Thumbnail Job of the current selection is alive
CurrentThumbAlive == \E job \in BagToSet(thumb_jobs) : ~job.stale

\* "failed to spawn: "
FailedToSpawn ==
    <<102, 97, 105, 108, 101, 100, 32, 116, 111, 32, 115, 112, 97, 119, 110,
      58, 32>>

----------------------------------------------------------------------------
\* C1: at every moment at most one Conversion Job is in flight for the
\* currently selected input.
C1_SingleFlight ==
    input_path # None => CopiesFor(input_path[1]) <= 1

\* C2: a Conversion Job whose subprocess exited with success writes Done
\* over Converting: at the moment of its write the cell holds Converting.
C2_DoneFromConverting ==
    [][\A job \in BagToSet(conv_jobs) :
          (ConvWrites(job) /\ job.res.kind = "ok")
              => status.kind = "Converting"]_vars

\* C3, as claimed: in the state in which set_input returns, the Status Cell
\* is Idle and the Thumbnail Cache Path Cell is None, whatever jobs of a
\* previous selection are in flight.
C3_ResetOnReturn ==
    [][SetInputReturns => (status' = Idle /\ thumbnail_path' = None)]_vars

\* C3, as amended: set_input's write of each cell leaves the reset value
\* in it (None, then Idle) whatever jobs are in flight, and on return the
\* selection is in place with no image, the loading flag set and the
\* selection's Thumbnail Job spawned; a cell may have been written again by
\* a job of a previous selection before set_input returns.
C3_ResetByEachWrite ==
    [][/\ (pc \in {"frame", "pick"} /\ pc' = "si_status")
            => (thumbnail_path' = None /\ video_thumbnail' = None)
       /\ (pc = "si_status" /\ pc' = "si_spawn") => status' = Idle
       /\ SetInputReturns
            => /\ video_thumbnail' = None
               /\ thumbnail_loading'
               /\ input_path' # None
               /\ output_path' = Some(SetExtension(input_path'[1], "mp3"))
               /\ CurrentThumbAlive']_vars

\* C3's case: set_input has reset both cells while a Conversion Job of the
\* previous selection, its subprocess result in hand, is still alive.
C3_Witness ==
    /\ pc = "si_spawn"
    /\ status = Idle
    /\ thumbnail_path = None
    /\ \E job \in BagToSet(conv_jobs) : job.stale /\ job.st = "ran"

\* C4: a Conversion Job ends only by its one write of a terminal status:
\* no task leaves the runtime without that write.
C4_EndsByWrite ==
    [][\A job \in BagToSet(conv_jobs) :
          Ends(job, conv_jobs, conv_jobs')
              => (job.st = "ran" /\ status'.kind \in {"Done", "Error"})]_vars

\* C5: when the subprocess ran and exited non-zero, the job's write stores
\* Error with the lossily decoded standard error, and nothing else.
C5_ErrorIsStderr ==
    [][\A job \in BagToSet(conv_jobs) :
          (ConvWrites(job) /\ job.res.kind = "exit")
              => status' = Error(FromUtf8Lossy(job.res.stderr))]_vars

\* C5's case: the cell holds the decoded standard error of a failed run, the
\* bytes E, C3 A9 (e acute), a truncated E2 82 and FF.
C5_Witness ==
    /\ status = Error(<<69, 233, 65533, 65533>>)
    /\ BagToSet(conv_jobs) = {}

\* C6, as claimed: when the tool cannot be spawned the job's write stores
\* Error with "failed to spawn: " followed by the failure's description.
C6_SpawnPrefixed ==
    [][\A job \in BagToSet(conv_jobs) :
          (ConvWrites(job) /\ job.res.kind = "spawnerr")
              => status' = Error(FailedToSpawn \o IoErrorToString(job.res.errno))]_vars

\* C6, as amended: when the tool cannot be spawned the job's write stores
\* Error with the failure's description alone, the text of the I/O error.
C6_SpawnDescription ==
    [][\A job \in BagToSet(conv_jobs) :
          (ConvWrites(job) /\ job.res.kind = "spawnerr")
              => status' = Error(IoErrorToString(job.res.errno))]_vars

\* C6's case: the cell holds the description of a spawn failure.
C6_Witness ==
    /\ status = Error(IoErrorToString(2))
    /\ BagToSet(conv_jobs) = {}

\* C7: no step of a Thumbnail Job changes the Status Cell; one changes the
\* Thumbnail Cache Path Cell only as the last step of a job whose
\* subprocess succeeded and whose output file exists, and to that file.
C7_ThumbnailFrame ==
    [][\A job \in BagToSet(thumb_jobs) :
          ThumbSteps(job)
              => /\ status' = status
                 /\ thumbnail_path' # thumbnail_path
                      => /\ job.st = "ran"
                         /\ job.ts \in thumb_files
                         /\ thumbnail_path' = Some(job.ts)
                         /\ Ends(job, thumb_jobs, thumb_jobs')]_vars

\* C7's case: a Thumbnail Job has written the cell while a conversion is
\* under way, and the Status Cell still holds Converting.
C7_Witness ==
    /\ thumbnail_path = Some(1)
    /\ status = Converting
    /\ thumb_files = {1}

C9_PollingStops ==
    [][(ThumbnailPass /\ input_path # None /\ ~CurrentThumbAlive)
          => ~repaint']_vars

\* C10: in one selection the image is loaded from the cell at most once.
C10_LoadedOnce == loads # "again"

\* the Thumbnail Jobs alive that have derived their output image path
Named == { job \in BagToSet(thumb_jobs) : job.st \in {"named", "ran"} }

\* C11: the output image paths of the Thumbnail Jobs alive differ from job to
\* job, so no two of them, stale or current, write the same thumbnail file.
C11_UniquePaths ==
    \A j1 \in Named :
        /\ CopiesIn(j1, thumb_jobs) = 1
        /\ \A j2 \in Named : j1 # j2 => j1.ts # j2.ts

\* C12: nothing orders a new selection and a Thumbnail Job of a previous
\* one.  A stale job whose subprocess succeeded and whose file exists writes
\* its path into the cell as a current job would (last write wins), and a
\* thumbnail pass that loads an image loads the path the cell holds, with no
\* look at the input it was extracted from.
C12_LastWriteWins ==
    [][/\ \A job \in BagToSet(thumb_jobs) :
             (ThumbSteps(job) /\ job.stale /\ job.st = "ran"
                 /\ job.ts \in thumb_files)
                 => thumbnail_path' = Some(job.ts)
       /\ (ThumbnailPass /\ video_thumbnail = None /\ video_thumbnail' # None)
             => (thumbnail_path # None /\ video_thumbnail' = thumbnail_path)]_vars

\* C12's case: the preview shown is an image loaded from the cell, and the
\* selected input is one whose own Thumbnail Job never runs the tool (its
\* path is not valid Unicode).  set_input cleared the preview and the cell,
\* so the path was written afterwards by the job of a previous, other input.
C12_Witness ==
    /\ input_path # None
    /\ ~ToStrIsSome(input_path[1])
    /\ video_thumbnail # None
    /\ video_thumbnail = thumbnail_path

\* C13: a terminal status that stays in the Status Cell was written by a
\* Conversion Job started for the currently selected input.  A write that
\* falls inside set_input before its reset of the cell is left aside: the
\* reset replaces it.
C13_StatusOfSelection ==
    [][\A job \in BagToSet(conv_jobs) :
          (ConvWrites(job) /\ pc # "si_status")
              => (input_path # None /\ job.input = input_path[1])]_vars

====
